---- MODULE Spec2Model ----
(***************************************************************************)
(* State-machine model of py/pyxsi_utils.py: the signal accessors          *)
(* (_find_signal, _read_signal, _write_signal), the edge togglers          *)
(* (toggle_neg_edge, toggle_pos_edge, toggle_clk), the reset sequencer     *)
(* (reset_rtlsim) and the streaming handshake engine (rtlsim_multi_io).    *)
(*                                                                         *)
(* The simulation handle (pyxsi.XSI) is a map from port names to           *)
(* fixed-width binary strings, here sequences of the digits 0 and 1, most  *)
(* significant digit first.  Every call the code makes on the handle       *)
(* (set_port_value, run) is one step of the model, so that the order of    *)
(* writes and time advances inside an operation is visible.                *)
(***************************************************************************)
EXTENDS Integers, Sequences, FiniteSets, TLC

\* ------------------------------------------------------------------ bounds
\* longest input queue handed to rtlsim_multi_io
MaxLen == 2
\* largest num_out_values
MaxTarget == 2
\* largest liveness_threshold
MaxThreshold == 2
\* number of calls made on one handle
MaxCalls == 2
\* widest signal of the accessor round trip
MaxWidth == 4
\* width of the TDATA ports of the handle
DataWidth == 2

\* Counters that grow for as long as a call runs are kept exactly up to a
\* cap and stay at the cap from there on ("cap" reads "cap or more"); the caps
\* lie above every value a call that ends can reach.
CountCap == MaxTarget + 1
CycleCap == (MaxTarget + 1) * MaxThreshold + 1
TimeCap == 2 * CycleCap
BufCap == MaxTarget + 2
Sat(n, cap) == IF n < cap THEN n + 1 ELSE cap

\* --------------------------------------------------- binary string helpers
RECURSIVE Pow2(_)
Pow2(n) == IF n = 0 THEN 1 ELSE 2 * Pow2(n - 1)

\* the digits Python's format(v, "b") prints for v >= 0: no leading zero
RECURSIVE BinDigits(_)
BinDigits(v) == IF v < 2 THEN <<v>> ELSE Append(BinDigits(v \div 2), v % 2)

Zeros(n) == [i \in 1..n |-> 0]

\* f"{v:0{w}b}": zero-padded on the left to at least w digits, never cut
FormatBin(v, w) ==
    LET d == BinDigits(v)
    IN  IF Len(d) >= w THEN d ELSE Zeros(w - Len(d)) \o d

\* a slip of s[-w:]: s[:w], the first w characters
LastChars_First(s, w) == IF w >= Len(s) THEN s ELSE SubSeq(s, 1, w)

\* s[-w:]: the last w characters of s (all of s when w = 0 or w >= len(s))
LastChars(s, w) ==
    IF w = 0 \/ w >= Len(s) THEN s ELSE SubSeq(s, Len(s) - w + 1, Len(s))

\* int(s, 2) of a non-empty digit string
RECURSIVE ParseBin(_)
ParseBin(s) ==
    IF Len(s) = 1 THEN s[1]
    ELSE 2 * ParseBin(SubSeq(s, 1, Len(s) - 1)) + s[Len(s)]

\* ----------------------------------------------------------------- names
clk_name == "ap_clk"
rst_name == "ap_rst_n"
sname == "_V_V_"
TVALID(ch) == ch \o sname \o "TVALID"
TREADY(ch) == ch \o sname \o "TREADY"
TDATA(ch) == ch \o sname \o "TDATA"

\* str.lower() on the signal names the model queries
Lower(s) ==
    CASE s = "AP_CLK" -> "ap_clk"
      [] s = "AP_RST_N" -> "ap_rst_n"
      [] s = "Sig" -> "sig"
      [] s = "SIG" -> "sig"
      [] s = "Sog" -> "sog"
      [] OTHER -> s

NotFound == "Signal not found"

VARIABLES
    ports,            \* the handle: port name -> binary string
    time_advances,    \* sim.run(5000) calls since the current call began
    pc,               \* position of the call in progress, "idle" between calls
    op,               \* the call in progress or last finished
    calls,            \* calls started on this handle
    outcome,          \* how the last call ended
    active_low,       \* reset_rtlsim argument
    toggles,          \* toggle_clk calls reset_rtlsim has begun
    signals_to_write, \* pending writes of toggle_pos_edge, in dict order
    wi,               \* index of the next pending write
    in_keys,          \* io_dict["inputs"] keys, in dict order
    out_keys,         \* io_dict["outputs"] keys, in dict order
    inputs,           \* io_dict["inputs"]: channel -> queue
    outputs,          \* io_dict["outputs"]: channel -> buffer
    num_out_values,
    liveness_threshold,
    hook_preclk,      \* whether a pre-clock hook was passed
    hook_postclk,     \* whether a post-clock hook was passed
    output_done,
    total_cycle_count,
    output_count,
    old_output_count,
    no_change_count,
    design,           \* behaviour of the simulated design
    hist              \* history of the current call (see HistInit)

vars == <<ports, time_advances, pc, op, calls, outcome, active_low, toggles,
          signals_to_write, wi, in_keys, out_keys, inputs, outputs,
          num_out_values, liveness_threshold, hook_preclk, hook_postclk,
          output_done, total_cycle_count, output_count, old_output_count,
          no_change_count, design, hist>>

\* ------------------------------------------------------ the handle (XSI)
get_port_value(p, name) == p[name]
set_port_value(p, name, s) == [p EXCEPT ![name] = s]
\* [sim.get_port_name(i) for i in range(sim.get_port_count())]
port_names(p) == DOMAIN p

\* ------------------------------------------------------- signal accessors
\* a slip of lines 117-120: the lowercase form is tried first
_find_signal_LowerFirst(p, signal_name) ==
    IF Lower(signal_name) \in port_names(p) THEN Lower(signal_name)
    ELSE IF signal_name \in port_names(p) THEN signal_name
    ELSE NotFound

_find_signal(p, signal_name) ==
    IF signal_name \in port_names(p) THEN signal_name
    ELSE IF Lower(signal_name) \in port_names(p) THEN Lower(signal_name)
    ELSE NotFound

_read_signal(p, signal_name) ==
    ParseBin(get_port_value(p, _find_signal(p, signal_name)))

\* the binary string _write_signal hands to set_port_value
signal_bin_value(signal_value, signal_len) ==
    LastChars(FormatBin(signal_value, signal_len), signal_len)

\* a slip of lines 134-137: the sign is tested after the port was written
_write_signal_LateCheck(p, signal_name, signal_value) ==
    LET name == _find_signal(p, signal_name) IN
    IF name = NotFound THEN [err |-> "not_found", ports |-> p]
    ELSE LET signal_len == Len(get_port_value(p, name))
             mag == IF signal_value < 0 THEN -signal_value ELSE signal_value
             q == set_port_value(p, name, signal_bin_value(mag, signal_len))
         IN  IF signal_value < 0 THEN [err |-> "negative", ports |-> q]
             ELSE [err |-> "none", ports |-> q]

\* result of _write_signal: the exception it raises, if any, and the ports
\* it leaves
_write_signal(p, signal_name, signal_value) ==
    LET name == _find_signal(p, signal_name) IN
    IF name = NotFound THEN [err |-> "not_found", ports |-> p]
    ELSE LET signal_len == Len(get_port_value(p, name)) IN
         IF signal_value < 0 THEN [err |-> "negative", ports |-> p]
         ELSE [err |-> "none",
               ports |-> set_port_value(p, name,
                             signal_bin_value(signal_value, signal_len))]

\* ------------------------------------------------- the simulated design
Range(s) == {s[i] : i \in DOMAIN s}
AllChans == {"in0", "in1", "out0", "out1"}
IsData(n) == \E c \in AllChans : n = TDATA(c)
Width(n) == IF IsData(n) THEN DataWidth ELSE 1

\* The variable ports holds the ports the caller of the module drives (the
\* inputs of the design: clock, reset, TVALID/TDATA of the input channels,
\* TREADY of the output channels).  The ports the design drives (TREADY of
\* its input channels, TVALID/TDATA of its output channels) have the value
\* the design shows when they are read; the handle a read sees is ports
\* together with one of DesignShows.
DrivenPorts(ins, outs) ==
    {clk_name, rst_name}
        \cup UNION {{TVALID(c), TDATA(c)} : c \in Range(ins)}
        \cup {TREADY(c) : c \in Range(outs)}

\* the words an unconstrained design puts on the TDATA of output channel c:
\* two different words when it has one channel each way, else one word of
\* its own per output channel
DesignWords(ins, outs, c) ==
    IF Len(ins) = 1 /\ Len(outs) = 1 THEN {1, 2}
    ELSE {CHOOSE i \in DOMAIN outs : outs[i] = c}

\* what output channel c may show: TVALID low, or TVALID high with a word
OutChoices(ins, outs, c) ==
    {[valid |-> 0, data |-> 0]}
        \cup {[valid |-> 1, data |-> d] : d \in DesignWords(ins, outs, c)}

\* the values of the design's ports when it shows TREADY of its input
\* channels as in rdy and TVALID/TDATA of its output channels as in out
Shows(rdy, out) ==
    [n \in {TREADY(c) : c \in DOMAIN rdy}
            \cup UNION {{TVALID(c), TDATA(c)} : c \in DOMAIN out} |->
        IF \E c \in DOMAIN rdy : n = TREADY(c)
            THEN <<rdy[CHOOSE c \in DOMAIN rdy : n = TREADY(c)]>>
        ELSE IF \E c \in DOMAIN out : n = TVALID(c)
            THEN <<out[CHOOSE c \in DOMAIN out : n = TVALID(c)].valid>>
        ELSE FormatBin(out[CHOOSE c \in DOMAIN out : n = TDATA(c)].data,
                       DataWidth)]

\* what the design can show on its ports, given the ports p it is driven by:
\*   "pass"   output TVALID/TDATA follow input TVALID/TDATA, input TREADY is 1
\*   "silent" never asserts an output TVALID, input TREADY is anything
\*   "free"   any design
DesignShows(p, d, ins, outs) ==
    CASE d = "pass" ->
            {(TREADY(ins[1]) :> <<1>>)
                @@ (TVALID(outs[1]) :> p[TVALID(ins[1])])
                @@ (TDATA(outs[1]) :> p[TDATA(ins[1])])}
      [] d = "silent" ->
            {Shows(rdy, [c \in Range(outs) |-> [valid |-> 0, data |-> 0]]) :
                rdy \in [Range(ins) -> {0, 1}]}
      [] OTHER ->
            UNION {{Shows(rdy, out) : rdy \in [Range(ins) -> {0, 1}]} :
                out \in {f \in [Range(outs) ->
                                    UNION {OutChoices(ins, outs, c) : c \in Range(outs)}] :
                            \A c \in Range(outs) : f[c] \in OutChoices(ins, outs, c)}}

\* sim.run(5000): simulated time advances
SimRun == time_advances' = Sat(time_advances, TimeCap)

\* ------------------------------------------------------------- history
\* hist records what the claims need to remember of the past:
\*   clk_writes  the last two values written to the clock port
\*   inputs0     io_dict["inputs"] as passed to the current rtlsim_multi_io
\*   outputs0    io_dict["outputs"] as passed to it
\*   edge_ports  the ports right after the time advance of the current
\*               toggle_pos_edge, kept until toggle_pos_edge returns
\*   quiet       completed read phases in a row in which no output channel
\*               showed TREADY = TVALID = 1
\*   edge_time   time_advances right after that time advance
\*   start       the ports as the current call found them
\*   prev        the call before the current one: what it was, how it ended
\*   arg         the value last passed to _write_signal by the caller
\*   hooks       the last two hooks called
\*   query       the name last passed to _find_signal by the caller
\*   seen        what the design showed to the last read phase, and
\*   before      io_dict as that read phase found it; both are kept until the
\*               clock is driven high
HistInit ==
    [clk_writes |-> <<>>, inputs0 |-> <<>>, outputs0 |-> <<>>,
     edge_ports |-> <<>>, quiet |-> 0, arg |-> 0, hooks |-> <<>>,
     edge_time |-> 0, seen |-> <<>>, before |-> <<>>, start |-> <<>>,
     query |-> "",
     prev |-> [op |-> "none", status |-> "none", active_low |-> TRUE]]

Last2(s, v) == IF Len(s) < 2 THEN Append(s, v) ELSE <<s[2], v>>

NoteClk(h, v) == [h EXCEPT !.clk_writes = Last2(@, v)]

\* the history as a new call finds it
NewHist ==
    [HistInit EXCEPT !.clk_writes = hist.clk_writes, !.start = ports,
                     !.prev = [op |-> op, status |-> outcome.status,
                               active_low |-> active_low]]

NoOutcome == [op |-> "none", status |-> "none", ret |-> 0]

cfgvars == <<in_keys, out_keys, design>>
loopvars == <<output_done, total_cycle_count, output_count, old_output_count,
              no_change_count>>
argvars == <<num_out_values, liveness_threshold, hook_preclk, hook_postclk>>
iovars == <<inputs, outputs>>
runvars == <<iovars, argvars, loopvars>>
resetvars == <<active_low, toggles>>

\* an exception leaves the call: nothing more of it runs
Raise(status) ==
    /\ pc' = "idle"
    /\ outcome' = [op |-> op, status |-> status, ret |-> 0]

Return(value) ==
    /\ pc' = "idle"
    /\ outcome' = [op |-> op, status |-> "ok", ret |-> value]

\* ------------------------------------------------------- reset_rtlsim
\* line 142: 0 if active_low else 1
Asserted(al) == IF al THEN 0 ELSE 1

\* a slip of line 147: the asserted level once more
Deasserted_Same(al) == IF al THEN 0 ELSE 1

\* line 147: 1 if active_low else 0
Deasserted(al) == IF al THEN 1 ELSE 0

CallReset(al) ==
    /\ pc = "idle"
    /\ calls' = calls + 1
    /\ op' = "reset" /\ pc' = "rst_clk"
    /\ active_low' = al /\ toggles' = 0
    /\ signals_to_write' = <<>> /\ wi' = 1
    /\ time_advances' = 0
    /\ outcome' = NoOutcome
    /\ hist' = NewHist
    /\ UNCHANGED <<ports, runvars, cfgvars>>

\* line 141: _write_signal(sim, clk_name, 0)
ResetClkLow ==
    /\ pc = "rst_clk"
    /\ ports' = _write_signal(ports, clk_name, 0).ports
    /\ hist' = NoteClk(hist, 0)
    /\ pc' = "rst_assert"
    /\ UNCHANGED <<time_advances, op, calls, outcome, resetvars,
                   signals_to_write, wi, runvars, cfgvars>>

\* line 142, then the first toggle_clk of the loop of lines 143-144 begins
ResetAssert ==
    /\ pc = "rst_assert"
    /\ ports' = _write_signal(ports, rst_name, Asserted(active_low)).ports
    /\ toggles' = 1
    /\ pc' = "neg_write"
    /\ UNCHANGED <<time_advances, op, calls, outcome, active_low,
                   signals_to_write, wi, runvars, cfgvars, hist>>

\* ---------------------------------------------------------- toggle_clk
\* toggle_clk(sim, clk_name, signals_to_write = w) called on its own
CallToggle(w) ==
    /\ pc = "idle"
    /\ calls' = calls + 1
    /\ op' = "toggle" /\ pc' = "neg_write"
    /\ signals_to_write' = w /\ wi' = 1
    /\ time_advances' = 0
    /\ outcome' = NoOutcome
    /\ hist' = NewHist
    /\ UNCHANGED <<ports, resetvars, runvars, cfgvars>>

\* a slip of line 158: the falling edge drives the clock high
NegEdgeWrite_High ==
    /\ pc = "neg_write"
    /\ ports' = _write_signal(ports, clk_name, 1).ports
    /\ hist' = NoteClk(hist, 1)
    /\ pc' = "neg_run"
    /\ UNCHANGED <<time_advances, op, calls, outcome, resetvars,
                   signals_to_write, wi, runvars, cfgvars>>

\* toggle_neg_edge, line 158: _write_signal(sim, clk_name, 0)
NegEdgeWrite ==
    /\ pc = "neg_write"
    /\ ports' = _write_signal(ports, clk_name, 0).ports
    /\ hist' = NoteClk(hist, 0)
    /\ pc' = "neg_run"
    /\ UNCHANGED <<time_advances, op, calls, outcome, resetvars,
                   signals_to_write, wi, runvars, cfgvars>>

\* toggle_neg_edge, line 159: sim.run(5000); rtlsim_multi_io goes on to its
\* read phase, toggle_clk to toggle_pos_edge
NegEdgeRun ==
    /\ pc = "neg_run"
    /\ SimRun
    /\ pc' = IF op = "run" THEN "read" ELSE "pos_write"
    /\ UNCHANGED <<ports, op, calls, outcome, resetvars, signals_to_write, wi,
                   runvars, cfgvars, hist>>

\* a slip of lines 163-168: the pending writes come before the time advance,
\* which is left out when there are any
PosEdgeWrite_ApplyEarly ==
    /\ pc = "pos_write"
    /\ ports' = _write_signal(ports, clk_name, 1).ports
    /\ hist' = [NoteClk(hist, 1) EXCEPT !.seen = <<>>, !.before = <<>>]
    /\ pc' = IF signals_to_write # <<>> THEN "pos_apply" ELSE "pos_run"
    /\ UNCHANGED <<time_advances, op, calls, outcome, resetvars,
                   signals_to_write, wi, runvars, cfgvars>>

\* toggle_pos_edge, line 163: _write_signal(sim, clk_name, 1)
PosEdgeWrite ==
    /\ pc = "pos_write"
    /\ ports' = _write_signal(ports, clk_name, 1).ports
    /\ hist' = [NoteClk(hist, 1) EXCEPT !.seen = <<>>, !.before = <<>>]
    /\ pc' = "pos_run"
    /\ UNCHANGED <<time_advances, op, calls, outcome, resetvars,
                   signals_to_write, wi, runvars, cfgvars>>

\* toggle_pos_edge, lines 164-166: sim.run(5000), then the test of
\* bool(signals_to_write)
PosEdgeRun ==
    /\ pc = "pos_run"
    /\ SimRun
    /\ hist' = [hist EXCEPT !.edge_ports = ports, !.edge_time = time_advances']
    /\ wi' = 1
    /\ pc' = IF signals_to_write # <<>> THEN "pos_apply" ELSE "pos_ret"
    /\ UNCHANGED <<ports, op, calls, outcome, resetvars, signals_to_write,
                   runvars, cfgvars>>

\* toggle_pos_edge, lines 167-168: one pass of the loop over the pending
\* writes; an exception of _write_signal ends the whole call
PosEdgeApply ==
    /\ pc = "pos_apply"
    /\ LET w == signals_to_write[wi]
           r == _write_signal(ports, w[1], w[2])
       IN  /\ ports' = r.ports
           /\ IF r.err # "none"
                THEN Raise(r.err) /\ wi' = wi
                ELSE /\ outcome' = outcome
                     /\ wi' = wi + 1
                     /\ pc' = IF wi < Len(signals_to_write)
                                THEN "pos_apply" ELSE "pos_ret"
    /\ UNCHANGED <<time_advances, op, calls, resetvars, signals_to_write,
                   runvars, cfgvars, hist>>

\* toggle_pos_edge returns (comb_update_and_trace, line 169, does nothing)
\* into a toggle_clk the caller made: the call is over
ToggleClkReturn ==
    /\ pc = "pos_ret" /\ op = "toggle"
    /\ Return(0)
    /\ hist' = [hist EXCEPT !.edge_ports = <<>>, !.edge_time = 0]
    /\ UNCHANGED <<ports, time_advances, op, calls, resetvars,
                   signals_to_write, wi, runvars, cfgvars>>

\* a slip of lines 143-148: the deasserted level goes with the second cycle
ResetPending_Early(done, al) ==
    IF done = 1 THEN <<<<rst_name, Deasserted(al)>>>> ELSE <<>>

\* the pending writes of the next toggle_clk of reset_rtlsim when done of
\* them have returned: lines 146-148 for the third, none for the others
ResetPending(done, al) ==
    IF done = 2 THEN <<<<rst_name, Deasserted(al)>>>> ELSE <<>>

\* toggle_pos_edge returns into reset_rtlsim: lines 143-149 go on with the
\* next toggle_clk, the third one carrying the deasserted reset level
ResetNextToggle ==
    /\ pc = "pos_ret" /\ op = "reset"
    /\ IF toggles < 4
         THEN /\ toggles' = toggles + 1
              /\ signals_to_write' = ResetPending(toggles, active_low)
              /\ pc' = "neg_write"
              /\ outcome' = outcome
         ELSE /\ Return(0)
              /\ UNCHANGED <<toggles, signals_to_write>>
    /\ hist' = [hist EXCEPT !.edge_ports = <<>>, !.edge_time = 0]
    /\ UNCHANGED <<ports, time_advances, op, calls, active_low, wi,
                   runvars, cfgvars>>

\* ------------------------------------------------------ rtlsim_multi_io
\* a slip of lines 231-232: the hook is passed and never called
LoopEntry_NoHook(hp) == "neg_write"

\* lines 230-234: where an iteration begins
LoopEntry(hp) == IF hp THEN "pre_hook" ELSE "neg_write"

CallRun(q, bufs, n, T, hp, hq) ==
    /\ pc = "idle"
    /\ calls' = calls + 1
    /\ op' = "run"
    /\ inputs' = q /\ outputs' = bufs
    /\ num_out_values' = n /\ liveness_threshold' = T
    /\ hook_preclk' = hp /\ hook_postclk' = hq
    \* lines 218-228
    /\ output_done' = FALSE
    /\ total_cycle_count' = 0
    /\ output_count' = 0
    /\ old_output_count' = 0
    /\ no_change_count' = 0
    /\ signals_to_write' = <<>>
    /\ wi' = 1
    /\ pc' = IF out_keys # <<>> THEN "setup" ELSE LoopEntry(hp)
    /\ time_advances' = 0
    /\ outcome' = NoOutcome
    /\ hist' = [NewHist EXCEPT !.inputs0 = q, !.outputs0 = bufs]
    /\ UNCHANGED <<ports, resetvars, cfgvars>>

\* a slip of lines 213-214: only the first output channel is made ready
RunSetup_FirstOnly ==
    /\ pc = "setup"
    /\ ports' = _write_signal(ports, TREADY(out_keys[wi]), 1).ports
    /\ wi' = 1 /\ pc' = LoopEntry(hook_preclk)
    /\ UNCHANGED <<time_advances, op, calls, outcome, resetvars,
                   signals_to_write, runvars, cfgvars, hist>>

\* lines 213-214: one pass of the loop writing TREADY = 1 of an output channel
RunSetup ==
    /\ pc = "setup"
    /\ ports' = _write_signal(ports, TREADY(out_keys[wi]), 1).ports
    /\ IF wi < Len(out_keys)
         THEN wi' = wi + 1 /\ pc' = pc
         ELSE wi' = 1 /\ pc' = LoopEntry(hook_preclk)
    /\ UNCHANGED <<time_advances, op, calls, outcome, resetvars,
                   signals_to_write, runvars, cfgvars, hist>>

\* lines 231-232: hook_preclk(sim); the hook only observes
RunPreHook ==
    /\ pc = "pre_hook"
    /\ hist' = [hist EXCEPT !.hooks = Last2(@, "pre")]
    /\ pc' = "neg_write"
    /\ UNCHANGED <<ports, time_advances, op, calls, outcome, resetvars,
                   signals_to_write, wi, runvars, cfgvars>>

\* inputs[1:]
Rest(s) == IF s = <<>> THEN <<>> ELSE Tail(s)

\* lines 241-244 and 251-254: the handshake test of a channel
Handshake(p, ch) ==
    _read_signal(p, TREADY(ch)) = 1 /\ _read_signal(p, TVALID(ch)) = 1

\* a slip of lines 238-246: a word is taken only when every channel is ready
PopInputs_AllOrNone(p, q) ==
    [c \in DOMAIN q |->
        IF \A x \in DOMAIN q : Handshake(p, x) THEN Rest(q[c]) ELSE q[c]]

\* lines 238-246: the queues after the input channels were examined
PopInputs(p, q) ==
    [c \in DOMAIN q |-> IF Handshake(p, c) THEN Rest(q[c]) ELSE q[c]]

\* a slip of lines 255-256: the word is appended and not counted
DrainOne_NoCount(p, ch, st) ==
    [st EXCEPT !.outputs[ch] =
        IF Len(@) < BufCap THEN @ \o <<_read_signal(p, TDATA(ch))>> ELSE @]

\* a slip of lines 255-256: the word goes to the head of the buffer
DrainOne_Prepend(p, ch, st) ==
    [outputs |-> [st.outputs EXCEPT ![ch] =
                    IF Len(@) < BufCap
                      THEN <<_read_signal(p, TDATA(ch))>> \o @ ELSE @],
     output_count |->
        IF st.output_count < CountCap THEN st.output_count + 1 ELSE CountCap,
     old_output_count |->
        IF st.output_count < CountCap THEN st.old_output_count
        ELSE st.old_output_count - 1]

\* lines 255-256 for one accepted word; st = [outputs, output_count,
\* old_output_count].  A buffer keeps its first BufCap words.  At CountCap the
\* pair of counters is kept up to a common shift: the count stays and the
\* remembered count steps down, so that their difference is exact.
DrainOne(p, ch, st) ==
    [outputs |-> [st.outputs EXCEPT ![ch] =
                    IF Len(@) < BufCap
                      THEN @ \o <<_read_signal(p, TDATA(ch))>> ELSE @],
     output_count |->
        IF st.output_count < CountCap THEN st.output_count + 1 ELSE CountCap,
     old_output_count |->
        IF st.output_count < CountCap THEN st.old_output_count
        ELSE st.old_output_count - 1]

\* lines 248-257 from the i-th output channel on
RECURSIVE DrainOutputs(_, _, _, _)
DrainOutputs(p, keys, i, st) ==
    IF i > Len(keys) THEN st
    ELSE DrainOutputs(p, keys, i + 1,
            IF Handshake(p, keys[i]) THEN DrainOne(p, keys[i], st) ELSE st)

\* a slip of lines 264-265: a key the dict has keeps its value (setdefault)
DictSet_KeepOld(d, k, v) ==
    IF \E i \in DOMAIN d : d[i][1] = k THEN d ELSE Append(d, <<k, v>>)

\* d[k] = v on a dict kept in insertion order
DictSet(d, k, v) ==
    IF \E i \in DOMAIN d : d[i][1] = k
      THEN [i \in DOMAIN d |-> IF d[i][1] = k THEN <<k, v>> ELSE d[i]]
      ELSE Append(d, <<k, v>>)

\* lines 261-265 from the i-th input channel on
RECURSIVE StageWrites(_, _, _, _)
StageWrites(d, keys, i, q) ==
    IF i > Len(keys) THEN d
    ELSE LET ch == keys[i]
             d1 == DictSet(d, TVALID(ch), IF Len(q[ch]) > 0 THEN 1 ELSE 0)
             d2 == DictSet(d1, TDATA(ch), IF Len(q[ch]) > 0 THEN q[ch][1] ELSE 0)
         IN  StageWrites(d2, keys, i + 1, q)

\* lines 238-265: the read phase and the staging of the pending writes; every
\* _read_signal of the phase sees the handle h
RunReadPhase ==
    /\ pc = "read"
    /\ \E shown \in DesignShows(ports, design, in_keys, out_keys) :
         LET h == ports @@ shown
             st == DrainOutputs(h, out_keys, 1,
                      [outputs |-> outputs, output_count |-> output_count,
                       old_output_count |-> old_output_count])
         IN  /\ inputs' = PopInputs(h, inputs)
             /\ outputs' = st.outputs
             /\ output_count' = st.output_count
             /\ old_output_count' = st.old_output_count
             /\ signals_to_write' =
                    StageWrites(signals_to_write, in_keys, 1, inputs')
             /\ hist' = [hist EXCEPT
                    !.seen = shown,
                    !.before = [inputs |-> inputs, outputs |-> outputs],
                    !.quiet = IF \E c \in Range(out_keys) : Handshake(h, c)
                                THEN 0 ELSE Sat(@, MaxThreshold + 1)]
    /\ pc' = "pos_write"
    /\ UNCHANGED <<ports, time_advances, op, calls, outcome, resetvars, wi,
                   argvars, output_done, total_cycle_count, no_change_count,
                   cfgvars>>

\* toggle_pos_edge returns into rtlsim_multi_io, line 269
RunPosEdgeReturn ==
    /\ pc = "pos_ret" /\ op = "run"
    /\ pc' = IF hook_postclk THEN "post_hook" ELSE "tail"
    /\ hist' = [hist EXCEPT !.edge_ports = <<>>, !.edge_time = 0]
    /\ UNCHANGED <<ports, time_advances, op, calls, outcome, resetvars,
                   signals_to_write, wi, runvars, cfgvars>>

\* lines 269-270: hook_postclk(sim)
RunPostHook ==
    /\ pc = "post_hook"
    /\ hist' = [hist EXCEPT !.hooks = Last2(@, "post")]
    /\ pc' = "tail"
    /\ UNCHANGED <<ports, time_advances, op, calls, outcome, resetvars,
                   signals_to_write, wi, runvars, cfgvars>>

\* a slip of lines 274-278: the counter is not put back to zero
Liveness_NoReset(count, old, no_change) ==
    [no_change_count |-> no_change + 1, old_output_count |-> count]

\* lines 274-278: the liveness update
Liveness(count, old, no_change) ==
    IF count = old
      THEN [no_change_count |-> no_change + 1, old_output_count |-> old]
      ELSE [no_change_count |-> 0, old_output_count |-> count]

\* lines 281-282
Done(count, n, done) == IF count = n THEN TRUE ELSE done

\* line 285
Stalled(no_change, T) == no_change = T

\* a slip of line 272: the counter steps at each of the two edges of a cycle
NextCycleCount_PerEdge(n) == Sat(Sat(n, CycleCap), CycleCap)

\* line 272: total_cycle_count + 1
NextCycleCount(n) == Sat(n, CycleCap)

\* lines 272-292: the end of a cycle, the raise of line 286, the loop test of
\* line 230 and the return of line 292
RunTail ==
    /\ pc = "tail"
    /\ LET lv == Liveness(output_count, old_output_count, no_change_count)
           dn == Done(output_count, num_out_values, output_done)
       IN  /\ total_cycle_count' = NextCycleCount(total_cycle_count)
           /\ no_change_count' = lv.no_change_count
           /\ old_output_count' = lv.old_output_count
           /\ output_done' = dn
           /\ IF Stalled(lv.no_change_count, liveness_threshold)
                THEN Raise("stalled")
                ELSE IF dn THEN Return(total_cycle_count')
                     ELSE pc' = LoopEntry(hook_preclk) /\ outcome' = outcome
    /\ UNCHANGED <<ports, time_advances, op, calls, resetvars,
                   signals_to_write, wi, iovars, argvars, output_count,
                   cfgvars, hist>>

\* ------------------------------------------- accessors called directly
\* _write_signal(sim, name, v) called by the user of the module
CallWriteSignal(name, v) ==
    /\ pc = "idle"
    /\ calls' = calls + 1
    /\ op' = "write"
    /\ LET r == _write_signal(ports, name, v)
       IN  /\ ports' = r.ports
           /\ outcome' = [op |-> "write",
                          status |-> IF r.err = "none" THEN "ok" ELSE r.err,
                          ret |-> 0]
    /\ hist' = [NewHist EXCEPT !.arg = v]
    /\ UNCHANGED <<time_advances, pc, resetvars, signals_to_write, wi,
                   runvars, cfgvars>>

\* _read_signal(sim, name) called by the user of the module
CallReadSignal(name) ==
    /\ pc = "idle"
    /\ calls' = calls + 1
    /\ op' = "read"
    /\ \E shown \in DesignShows(ports, design, in_keys, out_keys) :
          outcome' = [op |-> "read", status |-> "ok",
                      ret |-> _read_signal(ports @@ shown, name)]
    /\ hist' = [NewHist EXCEPT !.arg = hist.arg]
    /\ UNCHANGED <<ports, time_advances, pc, resetvars, signals_to_write, wi,
                   runvars, cfgvars>>

\* _find_signal(sim, name) called by the user of the module
CallFindSignal(name) ==
    /\ pc = "idle"
    /\ calls' = calls + 1
    /\ op' = "find"
    /\ LET r == _find_signal(ports, name)
       IN  outcome' = IF r = NotFound
                        THEN [op |-> "find", status |-> "not_found", ret |-> ""]
                        ELSE [op |-> "find", status |-> "ok", ret |-> r]
    /\ hist' = [NewHist EXCEPT !.query = name]
    /\ UNCHANGED <<ports, time_advances, pc, resetvars, signals_to_write, wi,
                   runvars, cfgvars>>

\* load_sim_obj: the caller goes on with the handle of another design, whose
\* ports are names; what the last call returned stays with the caller
LoadSimObj(names) ==
    /\ pc = "idle"
    /\ calls' = calls + 1
    /\ op' = "load"
    /\ ports' = [n \in names |-> <<0>>]
    /\ UNCHANGED <<time_advances, pc, outcome, resetvars, signals_to_write, wi,
                   runvars, cfgvars, hist>>

\* ------------------------------------------------------------- the calls
\* words the caller queues: 1 and 2 fit DataWidth bits
Words == {1, 2}
RECURSIVE SeqsUpTo(_, _)
SeqsUpTo(S, n) ==
    IF n = 0 THEN {<<>>}
    ELSE LET shorter == SeqsUpTo(S, n - 1)
         IN  shorter \cup {Append(q, x) : q \in {t \in shorter : Len(t) = n - 1}, x \in S}

Queues == SeqsUpTo(Words, MaxLen)

\* a word too wide for the TDATA ports
WideWord == Pow2(DataWidth) + 2

ZeroPorts(ins, outs) == [n \in DrivenPorts(ins, outs) |-> Zeros(Width(n))]

\* the state of a freshly loaded handle and of a caller that has called
\* nothing yet
InitWith(ins, outs, d) ==
    /\ in_keys = ins /\ out_keys = outs /\ design = d
    /\ ports = ZeroPorts(ins, outs)
    /\ time_advances = 0
    /\ pc = "idle" /\ op = "none" /\ calls = 0
    /\ outcome = NoOutcome
    /\ active_low = TRUE /\ toggles = 0
    /\ signals_to_write = <<>> /\ wi = 1
    /\ inputs = [c \in Range(ins) |-> <<>>]
    /\ outputs = [c \in Range(outs) |-> <<>>]
    /\ num_out_values = 0 /\ liveness_threshold = 1
    /\ hook_preclk = FALSE /\ hook_postclk = FALSE
    /\ output_done = FALSE
    /\ total_cycle_count = 0 /\ output_count = 0
    /\ old_output_count = 0 /\ no_change_count = 0
    /\ hist = HistInit

EdgeSteps ==
    \/ NegEdgeWrite
    \/ NegEdgeRun
    \/ PosEdgeWrite
    \/ PosEdgeRun
    \/ PosEdgeApply

CoreRunSteps ==
    \/ RunSetup
    \/ RunReadPhase
    \/ RunPosEdgeReturn
    \/ RunTail

HookSteps ==
    \/ RunPreHook
    \/ RunPostHook

\* ---- rtlsim_multi_io on a pass-through design, one channel each way
InitPass == InitWith(<<"in0">>, <<"out0">>, "pass")

NextPass ==
    \/ \E q \in [{"in0"} -> {s \in Queues : Len(s) \in 1..MaxTarget}],
           T \in 1..MaxThreshold, hk \in BOOLEAN :
          /\ calls < MaxCalls
          /\ CallRun(q, [c \in {"out0"} |-> <<>>], Len(q["in0"]), T, hk, hk)
    \/ EdgeSteps
    \/ CoreRunSteps
    \/ HookSteps

SpecPass == InitPass /\ [][NextPass]_vars

\* ---- one rtlsim_multi_io on any design: targets and thresholds
Profiles ==
    {[ins |-> <<"in0">>, outs |-> <<"out0">>, design |-> "free"],
     [ins |-> <<"in0">>, outs |-> <<"out0", "out1">>, design |-> "free"],
     [ins |-> <<"in0">>, outs |-> <<"out0">>, design |-> "silent"]}

InitRun == \E f \in Profiles : InitWith(f.ins, f.outs, f.design)

NextRun ==
    \/ \E n \in 0..MaxTarget, T \in 1..MaxThreshold :
          /\ calls < 1
          /\ CallRun([c \in Range(in_keys) |-> <<1>>],
                     [c \in Range(out_keys) |-> <<>>], n, T, FALSE, FALSE)
    \/ EdgeSteps
    \/ CoreRunSteps

SpecRun == InitRun /\ [][NextRun]_vars

\* ---- one rtlsim_multi_io with two input channels: the queues
InitIn == InitWith(<<"in0", "in1">>, <<"out0">>, "free")

NextIn ==
    \/ \E q0 \in Queues, q1 \in SeqsUpTo({WideWord}, MaxLen) :
          /\ calls < 1
          /\ CallRun(("in0" :> q0) @@ ("in1" :> q1), [c \in {"out0"} |-> <<>>],
                     MaxTarget, MaxThreshold, FALSE, FALSE)
    \/ EdgeSteps
    \/ CoreRunSteps

SpecIn == InitIn /\ [][NextIn]_vars

\* ---- one rtlsim_multi_io with one or two output channels: the buffers
OutProfiles ==
    {[ins |-> <<"in0">>, outs |-> <<"out0">>, design |-> "free"],
     [ins |-> <<"in0">>, outs |-> <<"out0", "out1">>, design |-> "free"]}

InitOut == \E f \in OutProfiles : InitWith(f.ins, f.outs, f.design)

NextOut ==
    \/ \E b0 \in {<<>>, <<2>>}, hk \in BOOLEAN :
          /\ calls < 1
          /\ CallRun([c \in Range(in_keys) |-> <<1>>],
                     [c \in Range(out_keys) |-> IF c = "out0" THEN b0 ELSE <<>>],
                     MaxTarget, MaxThreshold, hk, hk)
    \/ EdgeSteps
    \/ CoreRunSteps
    \/ HookSteps

SpecOut == InitOut /\ [][NextOut]_vars

\* every step of a call in progress is taken sooner or later: the code is
\* sequential and each call on the simulator returns
FairRun == SpecRun /\ WF_vars(EdgeSteps \/ CoreRunSteps)

\* ---- _write_signal and _read_signal on one signal of any width
InitRW ==
    /\ \E w \in 1..MaxWidth :
          ports = [n \in {"sig"} |-> Zeros(w)]
    /\ in_keys = <<>> /\ out_keys = <<>> /\ design = "silent"
    /\ time_advances = 0
    /\ pc = "idle" /\ op = "none" /\ calls = 0
    /\ outcome = NoOutcome
    /\ active_low = TRUE /\ toggles = 0
    /\ signals_to_write = <<>> /\ wi = 1
    /\ inputs = <<>> /\ outputs = <<>>
    /\ num_out_values = 0 /\ liveness_threshold = 1
    /\ hook_preclk = FALSE /\ hook_postclk = FALSE
    /\ output_done = FALSE
    /\ total_cycle_count = 0 /\ output_count = 0
    /\ old_output_count = 0 /\ no_change_count = 0
    /\ hist = HistInit

NextRW ==
    \/ \E name \in {"sig", "Sig"}, v \in -1..(2 * Pow2(MaxWidth) - 1) :
          calls < 2 /\ CallWriteSignal(name, v)
    \/ \E name \in {"sig", "Sig"} :
          calls < 2 /\ CallReadSignal(name)

SpecRW == InitRW /\ [][NextRW]_vars

\* ---- _find_signal on handles whose port names differ in case
\* the port lists: the spellings of one name that a design declares
PortLists == SUBSET {"sig", "Sig", "SIG"} \ {{}}

\* the names asked for
Queries == {"sig", "Sig", "SIG", "Sog"}

InitFind ==
    /\ \E names \in PortLists : ports = [n \in names |-> <<0>>]
    /\ in_keys = <<>> /\ out_keys = <<>> /\ design = "silent"
    /\ time_advances = 0
    /\ pc = "idle" /\ op = "none" /\ calls = 0
    /\ outcome = NoOutcome
    /\ active_low = TRUE /\ toggles = 0
    /\ signals_to_write = <<>> /\ wi = 1
    /\ inputs = <<>> /\ outputs = <<>>
    /\ num_out_values = 0 /\ liveness_threshold = 1
    /\ hook_preclk = FALSE /\ hook_postclk = FALSE
    /\ output_done = FALSE
    /\ total_cycle_count = 0 /\ output_count = 0
    /\ old_output_count = 0 /\ no_change_count = 0
    /\ hist = HistInit

NextFind ==
    \/ \E name \in Queries : calls < MaxCalls + 1 /\ CallFindSignal(name)
    \/ \E names \in PortLists : calls < MaxCalls + 1 /\ LoadSimObj(names)

SpecFind == InitFind /\ [][NextFind]_vars

\* ---- reset_rtlsim, toggle_clk and rtlsim_multi_io in any order on a handle
\* pending writes passed to toggle_clk
ToggleWrites ==
    {<<>>,
     <<<<TVALID("in0"), 1>>, <<TDATA("in0"), -1>>, <<TVALID("in1"), 1>>>>}

\* queues of channel in0 passed to rtlsim_multi_io; -1 is a word
\* _write_signal refuses
CallQueues == {<<1>>, <<1, -1>>, <<-1, 1>>}

Init == InitWith(<<"in0", "in1">>, <<"out0">>, "free")

Next ==
    \/ \E al \in BOOLEAN : calls < MaxCalls /\ CallReset(al)
    \/ \E w \in ToggleWrites : calls < MaxCalls /\ CallToggle(w)
    \/ \E q0 \in CallQueues :
          /\ calls < MaxCalls
          /\ CallRun(("in0" :> q0) @@ ("in1" :> <<2>>), [c \in {"out0"} |-> <<>>],
                     1, MaxThreshold, FALSE, FALSE)
    \/ ResetClkLow
    \/ ResetAssert
    \/ ResetNextToggle
    \/ ToggleClkReturn
    \/ EdgeSteps
    \/ CoreRunSteps

Spec == Init /\ [][Next]_vars

\* =================================================================== claims

\* a rtlsim_multi_io call on the pass-through design has ended, and it had
\* found TVALID of the input channel low
PassCallEnded ==
    /\ pc = "idle" /\ op = "run"
    /\ hist.start[TVALID("in0")] = <<0>>

\* what C1 promises of the call: it returned, the cycle count is at least the
\* target, and the output buffer is the input queue as it was passed
PassResult ==
    /\ outcome.status = "ok"
    /\ outcome.ret >= num_out_values
    /\ outputs["out0"] = hist.inputs0["in0"]

\* C1 as stated: on the pass-through design, with input TVALID low at the
\* start, an empty output buffer, a queue of n >= 1 fitting words and target n,
\* rtlsim_multi_io returns a cycle count >= n and leaves the buffer equal to
\* the queue, whatever the liveness threshold.
C1_PassThroughAnyThreshold == PassCallEnded => PassResult

\* C1 amended: the same with a liveness threshold of at least 2 (the first
\* cycle of such a call never drains a word, so a threshold of 1 stalls it).
C1_PassThrough ==
    (PassCallEnded /\ liveness_threshold >= 2) => PassResult

\* a call with a queue of two different words and threshold >= 2 returned with
\* both words in the buffer
C1_Witness ==
    /\ PassCallEnded /\ liveness_threshold >= 2
    /\ outcome.status = "ok"
    /\ Len(hist.inputs0["in0"]) >= 2
    /\ hist.inputs0["in0"][1] # hist.inputs0["in0"][2]
    /\ outputs["out0"] = hist.inputs0["in0"]

\* positions of rtlsim_multi_io between the end of a cycle and the read phase
\* of the next
LoopTop == {"pre_hook", "neg_write", "neg_run", "read"}

RunEnded == pc = "idle" /\ op = "run"

\* C2: rtlsim_multi_io raises the stall error at the end of the first cycle
\* that completes liveness_threshold read phases in a row without a drained
\* word, never earlier and never later; a cycle that drains a word puts the
\* no-progress counter back to 0; on a design that never shows an output
\* TVALID, with a target > 0, it raises after exactly liveness_threshold
\* cycles.
C2_StallTiming ==
    op = "run" =>
        /\ (RunEnded /\ outcome.status = "stalled")
                => hist.quiet = liveness_threshold
        /\ (RunEnded /\ outcome.status = "ok")
                => hist.quiet < liveness_threshold
        /\ pc \in LoopTop
                => /\ hist.quiet < liveness_threshold
                   /\ no_change_count = hist.quiet
        /\ (RunEnded /\ design = "silent" /\ num_out_values > 0)
                => /\ outcome.status = "stalled"
                   /\ total_cycle_count = liveness_threshold

\* a call stalled although it had drained a word: the counter started again
\* after the drain
C2_Witness ==
    /\ RunEnded /\ outcome.status = "stalled"
    /\ liveness_threshold >= 2
    /\ output_count >= 1
    /\ total_cycle_count >= liveness_threshold + 2

\* C3: whenever the output word count equals the target at the end of a cycle
\* the loop ends and rtlsim_multi_io returns the cycle counter, also when the
\* no-progress counter reaches the threshold in that cycle.
C3_SuccessBeforeFailure ==
    /\ (RunEnded /\ output_count = num_out_values)
            => outcome = [op |-> "run", status |-> "ok", ret |-> total_cycle_count]
    /\ (op = "run" /\ pc \in LoopTop /\ total_cycle_count > 0)
            => output_count # num_out_values

\* C4: every rtlsim_multi_io call ends, by a return or by the stall error.
C4_Terminates == (op = "run") ~> (pc = "idle")

\* C5: in the read phase each input queue loses its head exactly when its own
\* TREADY and TVALID both read 1 (an empty queue stays empty), at most one word
\* per cycle, whatever the other channels show; and each queue is always a
\* suffix of the queue that was passed.
IsSuffix(s, t) == \E k \in 0..Len(t) : s = SubSeq(t, k + 1, Len(t))

C5_IndependentInputs ==
    op = "run" =>
        /\ \A c \in Range(in_keys) : IsSuffix(inputs[c], hist.inputs0[c])
        /\ pc = "pos_write" =>
              \A c \in Range(in_keys) :
                 LET was == hist.before.inputs[c]
                     hs == hist.seen[TREADY(c)] = <<1>> /\ ports[TVALID(c)] = <<1>>
                 IN  /\ (hs /\ was # <<>>) => inputs[c] = Tail(was)
                     /\ (~hs \/ was = <<>>) => inputs[c] = was

\* a read phase took a word of in0 and left the waiting word of in1
C5_Witness ==
    /\ op = "run" /\ pc = "pos_write"
    /\ hist.before.inputs["in1"] # <<>>
    /\ inputs["in1"] = hist.before.inputs["in1"]
    /\ ports[TVALID("in1")] = <<1>>
    /\ Len(inputs["in0"]) = Len(hist.before.inputs["in0"]) - 1

\* the value a port holds, as a number
Val(name) == ParseBin(ports[name])

\* the levels of the reset signal, as the claims state them
Level(al, asserted) == IF al = asserted THEN 0 ELSE 1

\* C6: reset_rtlsim writes the asserted level before any time advance, keeps
\* it through two full cycles and up to the time advance of the third rising
\* edge (the sixth time advance), writes the deasserted level right after that
\* advance, and returns after one more full cycle: 8 time advances in all.
C6_ResetTiming ==
    op = "reset" =>
        /\ pc \in {"rst_clk", "rst_assert"} => time_advances = 0
        /\ (pc \notin {"rst_clk", "rst_assert", "idle"}
                /\ (time_advances < 6 \/ (time_advances = 6 /\ pc = "pos_apply")))
              => Val(rst_name) = Level(active_low, TRUE)
        /\ (pc # "idle" /\ time_advances >= 6 /\ pc # "pos_apply")
              => Val(rst_name) = Level(active_low, FALSE)
        /\ pc = "pos_apply" => (time_advances = 6 /\ toggles = 3)
        /\ pc = "idle"
              => /\ time_advances = 8
                 /\ Val(rst_name) = Level(active_low, FALSE)

\* reset_rtlsim is about to write the deasserted level: six time advances are
\* over and reset is still asserted
C6_Witness ==
    /\ op = "reset" /\ pc = "pos_apply" /\ time_advances = 6
    /\ Val(rst_name) = Level(active_low, TRUE)

\* C7: a reset_rtlsim that follows a reset_rtlsim of the same polarity leaves
\* the clock and the reset signal as the first left them, clock high and reset
\* deasserted; and reset_rtlsim changes no port but these two.
C7_ResetIdempotent ==
    op = "reset" =>
        /\ \A n \in DOMAIN ports \ {clk_name, rst_name} : ports[n] = hist.start[n]
        /\ pc = "idle"
              => /\ Val(clk_name) = 1
                 /\ Val(rst_name) = Level(active_low, FALSE)
        /\ (pc = "idle" /\ hist.prev.op = "reset"
                /\ hist.prev.active_low = active_low)
              => /\ ports[clk_name] = hist.start[clk_name]
                 /\ ports[rst_name] = hist.start[rst_name]

\* a second reset_rtlsim of the same polarity has returned
C7_Witness ==
    /\ op = "reset" /\ pc = "idle"
    /\ hist.prev.op = "reset" /\ hist.prev.active_low = active_low
    /\ ~active_low

\* C8 as stated: of two writes to the clock in a row, the values differ.
C8_ClockAlternates ==
    Len(hist.clk_writes) = 2 => hist.clk_writes[1] # hist.clk_writes[2]

\* C8 amended: two writes to the clock in a row differ, but for the write of
\* 0 by the falling edge of the first cycle of reset_rtlsim, which follows the
\* write of 0 that reset_rtlsim begins with.
C8_ClockAlternatesButReset ==
    (Len(hist.clk_writes) = 2 /\ hist.clk_writes[1] = hist.clk_writes[2])
        => /\ hist.clk_writes = <<0, 0>>
           /\ op = "reset" /\ toggles = 1 /\ pc \in {"neg_run", "pos_write"}

\* a rtlsim_multi_io that follows a reset_rtlsim has driven the clock low,
\* after the high the reset left
C8_Witness ==
    /\ op = "run" /\ hist.prev.op = "reset" /\ pc = "neg_run"
    /\ total_cycle_count = 0
    /\ hist.clk_writes = <<1, 0>>

\* C9: _read_signal after _write_signal(v), v >= 0, on a signal of width w
\* returns v mod 2^w, and the port keeps exactly w characters.
C9_RoundTrip ==
    /\ \A n \in DOMAIN ports : op \in {"write", "read"} => Len(ports[n]) = Len(hist.start[n])
    /\ (op = "read" /\ hist.prev.op = "write" /\ hist.prev.status = "ok")
          => outcome.ret = hist.arg % Pow2(Len(ports["sig"]))

\* a value too wide for the signal was written and read back cut to the low
\* bits
C9_Witness ==
    /\ op = "read" /\ hist.prev.op = "write" /\ hist.prev.status = "ok"
    /\ hist.arg >= Pow2(Len(ports["sig"]))
    /\ outcome.ret # 0
    /\ outcome.ret = hist.arg % Pow2(Len(ports["sig"]))

\* the pending writes toggle_pos_edge has applied before the i-th
Applied(n, i) == {j \in 1..(i - 1) : signals_to_write[j][1] = n}

\* C10: a _write_signal with a negative value raises and changes no port and
\* does not advance simulated time; when it is one of the pending writes of a
\* toggle_pos_edge, the writes staged before it have been applied, it and
\* those staged after it have not.
C10_NegativeWrite ==
    /\ (pc = "idle" /\ op \in {"toggle", "run"} /\ outcome.status = "negative")
          => /\ signals_to_write[wi][2] < 0
             /\ time_advances = hist.edge_time
             /\ \A n \in DOMAIN ports :
                  ports[n] =
                     IF Applied(n, wi) = {} THEN hist.edge_ports[n]
                     ELSE LET j == CHOOSE j \in Applied(n, wi) : TRUE
                          IN  LastChars(FormatBin(signals_to_write[j][2], Width(n)),
                                        Width(n))
    /\ (op \in {"toggle", "run"} /\ pc = "pos_apply")
          => \A j \in 1..(wi - 1) : signals_to_write[j][2] >= 0

\* rtlsim_multi_io aborted at the negative TDATA of in0: its TVALID, staged
\* before, was raised, and TVALID of in1, staged after, was not
C10_Witness ==
    /\ pc = "idle" /\ op = "run" /\ outcome.status = "negative"
    /\ wi = 2
    /\ ports[TVALID("in0")] = <<1>> /\ hist.edge_ports[TVALID("in0")] = <<0>>
    /\ signals_to_write[3] = <<TVALID("in1"), 1>>
    /\ ports[TVALID("in1")] = <<0>>

\* C11: _find_signal returns the name asked for when it is a port name, even
\* when its lowercase form is a port name too; else the lowercase form when
\* that is a port name; else it raises the not-found error.  A port spelled
\* with upper-case letters is not found by a name of another case.  The answer
\* is that of the port list of the handle at the call, whatever an earlier
\* call on another port list answered.
C11_Resolve ==
    op = "find" =>
        LET q == hist.query
            P == DOMAIN ports
            lq == IF q = "Sog" THEN "sog" ELSE "sig"
        IN  /\ q \in P => outcome = [op |-> "find", status |-> "ok", ret |-> q]
            /\ (q \notin P /\ lq \in P)
                  => outcome = [op |-> "find", status |-> "ok", ret |-> lq]
            /\ (q \notin P /\ lq \notin P) => outcome.status = "not_found"
            /\ (q # "SIG" /\ P = {"SIG"}) => outcome.status = "not_found"

\* a name that was not found on one handle is found, by its lowercase form,
\* on the handle loaded after it
C11_Witness ==
    /\ op = "find" /\ hist.prev.op = "load" /\ hist.prev.status = "not_found"
    /\ hist.query = "Sig" /\ "Sig" \notin DOMAIN ports
    /\ outcome = [op |-> "find", status |-> "ok", ret |-> "sig"]

\* C12: the cycle counter of rtlsim_multi_io is 0 until the first cycle ends
\* and is at every point the number of full cycles (a falling edge and a
\* rising edge, each with its time advance) the call has completed, so it
\* grows by 1 per iteration and never falls; the value returned is that
\* number, is at least 1, also with target 0, and times the number of output
\* channels is at least the target.
C12_CycleCounter ==
    op = "run" =>
        /\ total_cycle_count < CycleCap =>
              /\ pc \in {"setup", "pre_hook", "neg_write", "neg_run", "idle"}
                    => time_advances = 2 * total_cycle_count
              /\ pc \in {"read", "pos_write", "pos_run"}
                    => time_advances = 2 * total_cycle_count + 1
              /\ pc \in {"pos_apply", "pos_ret", "post_hook", "tail"}
                    => time_advances = 2 * total_cycle_count + 2
        /\ (RunEnded /\ outcome.status = "ok")
              => /\ total_cycle_count < CycleCap
                 /\ outcome.ret = total_cycle_count
                 /\ outcome.ret >= 1
                 /\ outcome.ret * Len(out_keys) >= num_out_values

\* a call with target 0 returned 1, and a call with two output channels met
\* its target of 2 in one cycle
C12_Witness ==
    /\ RunEnded /\ outcome.status = "ok" /\ outcome.ret = 1
    /\ \/ num_out_values = 0
       \/ Len(out_keys) = 2 /\ num_out_values = 2

\* the ports toggle_pos_edge writes for rtlsim_multi_io: TVALID and TDATA of
\* the input channels
StagedPorts == UNION {{TVALID(c), TDATA(c)} : c \in Range(in_keys)}

\* C13: in a cycle of rtlsim_multi_io the read phase changes no port and
\* advances no time; no TVALID or TDATA of an input channel is written from
\* the time advance of the falling edge to the write of 1 to the clock; the
\* pending writes are applied only while the clock is 1 and the time advance
\* of the rising edge is over (two time advances into the cycle), and the
\* first of them follows that time advance at once.
C13_PhaseSeparation ==
    [][(op = "run" /\ op' = "run") =>
          LET Changed == {n \in DOMAIN ports : ports'[n] # ports[n]}
              after_edge ==
                  /\ ports[clk_name] = <<1>>
                  /\ hist.clk_writes[Len(hist.clk_writes)] = 1
                  /\ time_advances' = time_advances
                  /\ total_cycle_count < CycleCap
                        => time_advances = 2 * total_cycle_count + 2
          IN  /\ pc = "read" => (Changed = {} /\ time_advances' = time_advances)
              /\ pc \in {"neg_run", "read", "pos_write", "pos_run"}
                    => Changed \cap StagedPorts = {}
              /\ Changed \cap StagedPorts # {} => (pc = "pos_apply" /\ after_edge)
              /\ pc = "pos_apply" => after_edge
              /\ (pc' = "pos_apply" /\ pc # "pos_apply")
                    => /\ pc = "pos_run"
                       /\ time_advances < TimeCap => time_advances' = time_advances + 1
       ]_vars

\* in a cycle after the first, the first pending write has been applied and
\* the second is about to be
C13_Witness ==
    /\ op = "run" /\ pc = "pos_apply" /\ wi = 2
    /\ total_cycle_count = 1 /\ time_advances = 4

\* the value the pending writes hold for port k
StagedValue(k) ==
    signals_to_write[CHOOSE i \in DOMAIN signals_to_write :
                                signals_to_write[i][1] = k][2]

\* C14: when the toggle_pos_edge of a cycle of rtlsim_multi_io is over, TVALID
\* of each input channel is 1 exactly when its queue, after the pop of the
\* cycle, is not empty, and TDATA is the head of that queue modulo 2^width, or
\* 0 when it is empty; the pending writes of a cycle hold the values of the
\* queues as the read phase left them.
C14_StagedFromQueues ==
    op = "run" =>
        /\ pc \in {"pos_ret", "post_hook", "tail"} =>
              \A c \in Range(in_keys) :
                 /\ ports[TVALID(c)] = <<IF inputs[c] # <<>> THEN 1 ELSE 0>>
                 /\ Len(ports[TDATA(c)]) = DataWidth
                 /\ Val(TDATA(c)) = IF inputs[c] # <<>>
                                      THEN inputs[c][1] % Pow2(DataWidth) ELSE 0
        /\ pc \in {"pos_write", "pos_run", "pos_apply"} =>
              \A c \in Range(in_keys) :
                 /\ StagedValue(TVALID(c)) = IF inputs[c] # <<>> THEN 1 ELSE 0
                 /\ StagedValue(TDATA(c)) = IF inputs[c] # <<>> THEN inputs[c][1] ELSE 0

\* at the end of a cycle that popped the first word of in0, TDATA of in0 holds
\* the second word, and TDATA of in1 holds the low bits of a word too wide
C14_Witness ==
    /\ op = "run" /\ pc = "tail"
    /\ hist.inputs0["in0"] = <<1, 2>> /\ inputs["in0"] = <<2>>
    /\ Val(TDATA("in0")) = 2
    /\ inputs["in1"] # <<>> /\ inputs["in1"][1] >= Pow2(DataWidth)
    /\ Val(TDATA("in1")) = inputs["in1"][1] % Pow2(DataWidth)
    /\ Val(TDATA("in1")) # 0

IsPrefix(s, t) == Len(s) <= Len(t) /\ s = SubSeq(t, 1, Len(s))

\* the words appended to the buffers of the output channels keys[i], ... by
\* the current call
RECURSIVE AppendedFrom(_, _)
AppendedFrom(keys, i) ==
    IF i > Len(keys) THEN 0
    ELSE Len(outputs[keys[i]]) - Len(hist.outputs0[keys[i]])
            + AppendedFrom(keys, i + 1)

\* C15: in the read phase of a cycle the buffer of an output channel gets the
\* TDATA read appended when its TREADY and TVALID read 1, and is left alone
\* otherwise; at every point of a call, also after it raised the stall error,
\* each buffer begins with the contents it was passed with, and output_count
\* is the number of words appended to all buffers by this call.
C15_OutputsAppended ==
    op = "run" =>
        /\ \A c \in Range(out_keys) :
              /\ IsPrefix(hist.outputs0[c], outputs[c])
              /\ pc = "pos_write" =>
                    LET was == hist.before.outputs[c]
                        hs == /\ ports[TREADY(c)] = <<1>>
                              /\ hist.seen[TVALID(c)] = <<1>>
                    IN  /\ (hs /\ Len(was) < BufCap)
                              => outputs[c] = Append(was, ParseBin(hist.seen[TDATA(c)]))
                        /\ ~hs => outputs[c] = was
        /\ (output_count < CountCap
                /\ \A c \in Range(out_keys) : Len(outputs[c]) < BufCap)
              => output_count = AppendedFrom(out_keys, 1)

\* a call that was passed a buffer of one word raised the stall error after
\* it had appended another word
C15_Witness ==
    /\ RunEnded /\ outcome.status = "stalled"
    /\ hist.outputs0["out0"] = <<2>> /\ outputs["out0"] = <<2, 1>>
    /\ output_count = 1

\* C16: rtlsim_multi_io writes TREADY = 1 of every output channel before any
\* hook call, cycle or time advance, and TREADY stays 1 from there on; after
\* that it changes no port but the clock and TVALID/TDATA of the input
\* channels, these only by the pending writes of toggle_pos_edge, and the
\* falling edge changes no port but the clock.
C16_PortsWritten ==
    /\ [](op = "run" =>
            /\ pc = "setup" =>
                  /\ time_advances = 0 /\ total_cycle_count = 0
                  /\ hist.hooks = <<>>
                  /\ \A j \in 1..Len(out_keys) :
                        ports[TREADY(out_keys[j])] = <<IF j < wi THEN 1 ELSE 0>>
            /\ pc # "setup" =>
                  \A c \in Range(out_keys) : ports[TREADY(c)] = <<1>>
            /\ \A i \in DOMAIN signals_to_write :
                  signals_to_write[i][1] \in StagedPorts)
    /\ [][op' = "run" =>
            LET Changed == {n \in DOMAIN ports : ports'[n] # ports[n]}
            IN  /\ Changed \subseteq
                      {clk_name} \cup StagedPorts
                          \cup {TREADY(c) : c \in Range(out_keys)}
                /\ Changed \cap {TREADY(c) : c \in Range(out_keys)} # {}
                      => pc = "setup"
                /\ pc' = "setup" => pc \in {"idle", "setup"}
                /\ clk_name \in Changed => pc \in {"neg_write", "pos_write"}
                /\ pc \in {"neg_write", "neg_run"} => Changed \subseteq {clk_name}
                /\ Changed \cap StagedPorts # {} => pc = "pos_apply"
         ]_vars

\* a call with two output channels and hooks is in its second cycle, both
\* TREADY at 1
C16_Witness ==
    /\ op = "run" /\ pc = "neg_run" /\ total_cycle_count = 1
    /\ Len(out_keys) = 2 /\ hook_preclk
    /\ \A c \in Range(out_keys) : ports[TREADY(c)] = <<1>>

\* the hook called last in the current call, "none" before the first
LastHook == IF hist.hooks = <<>> THEN "none" ELSE hist.hooks[Len(hist.hooks)]

\* C17: with both hooks passed, every cycle of rtlsim_multi_io, the last one
\* before a return or a stall error too, calls hook_preclk once before the
\* clock is driven low and hook_postclk once after the pending writes of the
\* cycle were applied and before the cycle counter is stepped and the
\* conditions tested; the calls alternate pre, post, pre, post.
C17_Hooks ==
    (op = "run" /\ hook_preclk /\ hook_postclk) =>
        /\ Len(hist.hooks) = 1 => hist.hooks = <<"pre">>
        /\ Len(hist.hooks) = 2 => hist.hooks[1] # hist.hooks[2]
        /\ pc = "setup" => LastHook = "none"
        /\ pc = "pre_hook" =>
              /\ LastHook = IF total_cycle_count = 0 THEN "none" ELSE "post"
              /\ total_cycle_count < CycleCap
                    => time_advances = 2 * total_cycle_count
        /\ pc \in {"neg_write", "neg_run", "read", "pos_write", "pos_run",
                    "pos_apply", "pos_ret", "post_hook"} => LastHook = "pre"
        /\ pc = "neg_write" =>
              (total_cycle_count < CycleCap => time_advances = 2 * total_cycle_count)
        /\ pc \in {"post_hook", "tail"} =>
              /\ wi = Len(signals_to_write) + 1
              /\ \A i \in DOMAIN signals_to_write :
                    ParseBin(ports[signals_to_write[i][1]]) = signals_to_write[i][2]
              /\ total_cycle_count < CycleCap
                    => time_advances = 2 * total_cycle_count + 2
              /\ ~output_done
        /\ pc \in {"tail", "idle"} => LastHook = "post"

\* a call with hooks raised the stall error at the end of its first cycle,
\* after both hooks were called
C17_Witness ==
    /\ RunEnded /\ outcome.status = "stalled" /\ total_cycle_count = 1
    /\ hook_preclk /\ hook_postclk
    /\ hist.hooks = <<"pre", "post">>

\* C18: when the read phase of rtlsim_multi_io pops the head of an input
\* queue, the call has written TVALID = 1 and that head to TDATA of the
\* channel before, whatever state it found the handle in; so the first cycle
\* of a call pops nothing.
C18_PopsPresented ==
    (op = "run" /\ pc = "pos_write") =>
        \A c \in Range(in_keys) :
            inputs[c] # hist.before.inputs[c]
                => /\ total_cycle_count >= 1
                   /\ ports[TVALID(c)] = <<1>>
                   /\ ParseBin(ports[TDATA(c)])
                         = hist.before.inputs[c][1] % Pow2(DataWidth)

\* C19: at every point of a rtlsim_multi_io call the number of words appended
\* to the output buffers is at most num_out_values, and on a return it is
\* num_out_values.
C19_NeverOverTarget ==
    op = "run" =>
        /\ output_count <= num_out_values
        /\ (RunEnded /\ outcome.status = "ok") => output_count = num_out_values
====
